---- MODULE Spec2Model ----
(***************************************************************************)
(* Incremental document indexing of AtomicBim/rag-service.                 *)
(*                                                                         *)
(*   Spec        rag-indexer/upload.py : main, DocumentIndexer             *)
(*   SpecIngest  rag-ingest/ingest.py  : process_docs                      *)
(*                                                                         *)
(* and, over the same variables,                                           *)
(*                                                                         *)
(*   SpecUninterrupted  one run of upload.py that nobody interrupts        *)
(*   SpecDamaged        upload.py with a state file that gets damaged      *)
(*   SpecConfig         upload.py under any configuration                  *)
(*   SpecWide           upload.py over a tree with more kinds of files     *)
(*   SpecCleared        ingest.py with clear_data.py between its runs      *)
(*   SpecScenario       ingest.py over the tree of the concrete scenario   *)
(*   SpecChunk          chunk_text of ingest.py called on its own          *)
(*   SpecWait           wait_for_embedding_service of upload.py on its own *)
(*   SpecBot            rag-yandex-bot/bot.py : the polling loop of main   *)
(*   SpecBoth           either program over its own tree                   *)
(*                                                                         *)
(* Both programs are modelled as state machines over a source tree, the    *)
(* Qdrant collection and the persisted indexing state.  The environment    *)
(* writes and touches files, and every call to an external service may     *)
(* fail where the code has a failure path for it.                          *)
(***************************************************************************)
EXTENDS Bags, FiniteSets, Integers, Sequences, TLC

----------------------------------------------------------------------------
(* Bounds of the model *)

\* Document versions 1..MaxContent; bytes 0 is a file without extractable text.
MaxContent == 2
\* Events of the environment per behaviour: writes and touches of files,
\* failures of external calls, interrupts.
MaxEvents == 2
\* The longest text, and the largest size, that chunk_text is called with on
\* its own.
MaxLen == 4
MaxSize == 3
\* The updates of the messenger have the ids 0..MaxUpdate.
MaxUpdate == 2

(* Configuration of rag-indexer (config.py reads it from the environment) *)

\* BATCH_SIZE as configured for the model: the BATCH_SIZE environment variable.
BATCH_SIZE == 1

(* Constants of rag-ingest (ingest.py) *)

CHUNK_SIZE == 1000
CHUNK_OVERLAP == 100

----------------------------------------------------------------------------
(* Paths, files and the source tree *)

Path(d, s, e) == [dir |-> d, stem |-> s, ext |-> e]

\* os.path.basename(file_path): the name without its directory.
basename(p) == [stem |-> p.stem, ext |-> p.ext]

\* os.path.splitext(file_path)[0] + ".docx"
docx_of(p) == [p EXCEPT !.ext = ".docx"]

SUPPORTED_EXTENSIONS == {".docx", ".pdf", ".doc"}

\* The files rag-indexer may find under DOCS_ROOT_PATH.
IndexerPaths ==
    {Path("a", "x", ".doc"), Path("a", "x", ".docx"), Path("a", "y", ".pdf")}

\* The orders in which os.walk may list them (the order of a directory
\* listing is the file system's).
WalkOrders ==
    { <<Path("a", "x", ".doc"), Path("a", "x", ".docx"), Path("a", "y", ".pdf")>>,
      <<Path("a", "y", ".pdf"), Path("a", "x", ".docx"), Path("a", "x", ".doc")>> }

\* The files rag-ingest may find under DOCS_DIR.
IngestPaths ==
    {Path("a", "r", ".docx"), Path("a", "r", ".pdf"), Path("a", "m", ".pdf"),
     Path("b", "r", ".docx")}

\* Two of the orders in which os.walk may list them: directory a before b,
\* and b before a.
IngestWalks ==
    { <<Path("a", "r", ".docx"), Path("a", "r", ".pdf"), Path("a", "m", ".pdf"),
        Path("b", "r", ".docx")>>,
      <<Path("b", "r", ".docx"), Path("a", "m", ".pdf"), Path("a", "r", ".pdf"),
        Path("a", "r", ".docx")>> }

\* A wider tree for rag-indexer: a file of the same name in two directories,
\* a temporary file (its name starts with "~") and a file of another format.
WidePaths ==
    {Path("a", "x", ".docx"), Path("b", "x", ".docx"), Path("a", "~", ".docx"),
     Path("a", "n", ".txt")}

\* The tree of the concrete scenario: policy.docx, policy_old.pdf, memo.pdf.
ScenarioPaths ==
    {Path("a", "policy", ".docx"), Path("a", "policy_old", ".pdf"),
     Path("a", "memo", ".pdf")}

\* Every order of a set of paths.
Orders(paths) ==
    {walk \in [1..Cardinality(paths) -> paths] :
        \A i, j \in DOMAIN walk : walk[i] = walk[j] => i = j}

Contents == 0..MaxContent
NoFile == [exists |-> FALSE, bytes |-> 0, mtime |-> 0]
File(b, t) == [exists |-> TRUE, bytes |-> b, mtime |-> t]

----------------------------------------------------------------------------
(* Dictionaries and the JSON state file *)

EmptyDict == [k \in {} |-> 0]
Put(d, k, v) == [x \in DOMAIN d \cup {k} |-> IF x = k THEN v ELSE d[x]]
Pop(d, k) == [x \in DOMAIN d \ {k} |-> d[x]]
\* dict.get(k): None is written -1, which no modification time equals.
Get(d, k) == IF k \in DOMAIN d THEN d[k] ELSE -1

\* json.dump(state): the object as its set of key/value members.
json_dump(d) == {<<k, d[k]>> : k \in DOMAIN d}
\* json.load: the members back to a dictionary.
json_load(text) ==
    [k \in {kv[1] : kv \in text} |-> (CHOOSE kv \in text : kv[1] = k)[2]]

----------------------------------------------------------------------------
(* Text extraction, splitting, points *)

\* extract_text_from_docx / extract_text_from_pdf: None (written 0) when the
\* document yields no text or cannot be parsed, else the text of that version.
extract_text(bytes) == bytes

\* RecursiveCharacterTextSplitter.split_text: version v splits into v chunks.
split_text(text) == [k \in 1..text |-> <<text, k>>]

\* The payload of one point (its id is a fresh uuid4: points never collide).
Point(chunk, filename, category) ==
    [text |-> chunk, source_file |-> filename, category |-> category]

\* create_embeddings_batch without a failure: one point per chunk, in order.
create_embeddings_batch(chunks, filename, category) ==
    [k \in 1..Len(chunks) |-> Point(chunks[k], filename, category)]

SeqToBag(s) == [x \in {s[k] : k \in 1..Len(s)} |-> Cardinality({k \in 1..Len(s) : s[k] = x})]

\* qdrant_client.delete with a filter on payload.source_file.
DeleteBySource(coll, filename) ==
    [p \in {q \in DOMAIN coll : q.source_file # filename} |-> coll[p]]

\* qdrant_client.upsert of points with fresh ids.
Upsert(coll, pts) == coll (+) SeqToBag(pts)

\* The points of the collection whose payload names filename.
PointsOf(coll, filename) ==
    [p \in {q \in DOMAIN coll : q.source_file = filename} |-> coll[p]]

Min(a, b) == IF a < b THEN a ELSE b

----------------------------------------------------------------------------
VARIABLES
    tree,               \* the indexer's source tree: path -> file
    clock,              \* the latest modification time handed out
    win32,              \* sys.platform == "win32" with win32com importable
    config,             \* rag-indexer's config module, read from the environment
    call,               \* a function called on its own: arguments, locals, result
    state_file,         \* indexing_state.json
    qdrant,             \* the collection: a bag of payloads
    collection_exists,
    pc,                 \* where main stands
    files_to_process, cur, new_state, successful_files,
    pd,                 \* the locals of the running process_document; issued,
                        \* ops, sent and deleted are history: the store calls
                        \* of the pass, the batches handed to upsert, and the
                        \* source_file the delete was asked for
    events,             \* events of the environment so far
    \* history
    run_start_state,    \* load_state() of the running run
    results,            \* path -> result of process_document in this run
    run_log, last_run,  \* what the running and the previous run did
    half_done,          \* files whose last pass deleted and then failed to upsert
    new_bytes,          \* path -> bytes the file held when new_state[path] was set
    bytes_at_commit,    \* the same for the records of state_file
    \* rag-ingest
    files_table,        \* the files table of ingest_state.db: path -> hash
    final_files, icur,  \* process_docs: the selected files, the loop's position
    ip,                 \* process_docs: the locals of the current iteration
    scanned,            \* history: the files that existed when the tree was walked
    row_of,             \* history: path -> the bytes and mtime its row was hashed from
    ilog,               \* history: <<operation, path>> done in the running run;
                        \* "removed" is a delete that found points, "escaped"
                        \* an exception that left process_docs
    faulted             \* history: an external call has failed or a run was killed

vars == <<tree, clock, win32, config, call, state_file, qdrant, collection_exists, pc,
          files_to_process, cur, new_state, successful_files, pd, events,
          run_start_state, results, run_log, last_run, half_done, new_bytes,
          bytes_at_commit, files_table, final_files, icur, ip, scanned, row_of,
          ilog, faulted>>

env_vars == <<tree, clock>>
store_vars == <<state_file, qdrant, collection_exists>>
main_vars == <<files_to_process, cur, new_state, successful_files>>
hist_vars == <<run_start_state, results, run_log, last_run, half_done, new_bytes,
               bytes_at_commit>>
ingest_vars == <<files_table, final_files, icur, ip, scanned, row_of, ilog,
                 faulted>>
\* What no step of either program changes: the host and the configuration.
host_vars == <<win32, config, call>>
indexer_vars == <<host_vars, state_file, main_vars, pd, hist_vars>>

NoPd == [file_path |-> Path("", "", ""), filename |-> basename(Path("", "", "")),
         text |-> 0, points |-> <<>>, next |-> 0, result |-> "",
         issued |-> {}, delete_ok |-> FALSE, ops |-> <<>>, sent |-> <<>>,
         deleted |-> basename(Path("", "", ""))]

\* A run's log: started, the startup checks passed; clean, the tree has not
\* changed since the run began; finished, the startup checks passed and main returned from its last
\* statement or from finding nothing to do; ok, moreover every queued file
\* succeeded and the state was saved; mut, a delete, an upsert or a state
\* write was issued.
NoRun == [started |-> FALSE, clean |-> FALSE, finished |-> FALSE, ok |-> FALSE,
          mut |-> FALSE]
NewRun == [started |-> TRUE, clean |-> TRUE, finished |-> FALSE, ok |-> FALSE,
           mut |-> FALSE]

\* config.py with CHUNK_SIZE and CHUNK_OVERLAP at their defaults.
DefaultConfig == [CHUNK_SIZE |-> 800, CHUNK_OVERLAP |-> 60, BATCH_SIZE |-> BATCH_SIZE]

\* No call of chunk_text on its own is under way.
NoCall == [text |-> <<>>, size |-> 0, overlap |-> 0, chunks |-> <<>>,
           returned |-> FALSE]

NoIp == [path |-> Path("", "", ""), current_hash |-> -1, row |-> -1,
         bytes |-> 0, mtime |-> 0, skipped |-> FALSE, chunks |-> <<>>,
         embed_failed |-> FALSE, committed |-> FALSE, ops |-> <<>>]

InRun == pc \notin {"idle", "done", "dead"}

IngestIdle ==
    /\ files_table = EmptyDict
    /\ final_files = <<>>
    /\ icur = 0
    /\ ip = NoIp
    /\ scanned = {}
    /\ row_of = EmptyDict
    /\ ilog = {}
    /\ faulted = FALSE

IndexerIdle ==
    /\ state_file = {}
    /\ files_to_process = <<>>
    /\ cur = 0
    /\ new_state = EmptyDict
    /\ successful_files = 0
    /\ pd = NoPd
    /\ run_start_state = EmptyDict
    /\ results = EmptyDict
    /\ run_log = NoRun
    /\ last_run = NoRun
    /\ half_done = {}
    /\ new_bytes = EmptyDict
    /\ bytes_at_commit = EmptyDict

Init ==
    /\ tree \in [IndexerPaths -> {NoFile, File(2, 1)}]
    /\ clock = 1
    /\ win32 \in BOOLEAN
    /\ config = DefaultConfig
    /\ call = NoCall
    /\ qdrant = EmptyBag
    /\ collection_exists = FALSE
    /\ pc = "idle"
    /\ events = 0
    /\ IndexerIdle
    /\ IngestIdle

\* os.walk over the tree: the orders in which it may list the files.
os_walk ==
    IF DOMAIN tree = IndexerPaths THEN WalkOrders
    ELSE IF DOMAIN tree = IngestPaths THEN IngestWalks
    ELSE Orders(DOMAIN tree)

----------------------------------------------------------------------------
(* The environment: files are written and touched at any time *)

\* What a change of the tree does to the history of the runs.
TreeChanged ==
    /\ run_log' = [run_log EXCEPT !.clean = FALSE]
    /\ last_run' = [last_run EXCEPT !.clean = FALSE]

\* A file is created or its content replaced; the write stamps a new mtime.
WriteFile(p, b) ==
    /\ pc \notin {"done", "dead"}
    /\ events < MaxEvents
    /\ events' = events + 1
    /\ ~tree[p].exists \/ tree[p].bytes # b
    /\ tree' = [tree EXCEPT ![p] = File(b, clock + 1)]
    /\ clock' = clock + 1
    /\ TreeChanged
    /\ UNCHANGED <<host_vars, store_vars, pc, main_vars, pd, ingest_vars,
                   run_start_state, results, half_done, new_bytes, bytes_at_commit>>

\* touch: the modification time changes, the bytes do not.
TouchFile(p) ==
    /\ pc \notin {"done", "dead"}
    /\ events < MaxEvents
    /\ events' = events + 1
    /\ tree[p].exists
    /\ tree' = [tree EXCEPT ![p].mtime = clock + 1]
    /\ clock' = clock + 1
    /\ TreeChanged
    /\ UNCHANGED <<host_vars, store_vars, pc, main_vars, pd, ingest_vars,
                   run_start_state, results, half_done, new_bytes, bytes_at_commit>>

----------------------------------------------------------------------------
(* rag-indexer/upload.py *)

\* A state file that is text but not JSON, and one whose bytes are not UTF-8.
NotJson == {<<Path("", "", ""), -2>>}
NotUtf8 == {<<Path("", "", ""), -3>>}

\* load_state: json.JSONDecodeError is caught and gives {}.  (A file that is
\* not UTF-8 raises UnicodeDecodeError, see load_state_raises.)
load_state == IF state_file = NotJson THEN EmptyDict ELSE json_load(state_file)

\* A scan that queues every supported file, whatever the state records.
IsChanged_ignoring_state(state, p) ==
    /\ tree[p].exists
    /\ p.stem # "~"
    /\ p.ext \in SUPPORTED_EXTENSIONS

\* A scan without the test "if filename.startswith('~'): continue".
IsChanged_with_temporary(state, p) ==
    /\ tree[p].exists
    /\ p.ext \in SUPPORTED_EXTENSIONS
    /\ Get(state, p) # tree[p].mtime

\* find_changed_files: the files of the walk that are supported, are not
\* temporary, and whose recorded modification time differs from the current.
IsChanged(state, p) ==
    /\ tree[p].exists
    /\ p.stem # "~"
    /\ p.ext \in SUPPORTED_EXTENSIONS
    /\ Get(state, p) # tree[p].mtime

find_changed_files(walk, state) ==
    SelectSeq(walk, LAMBDA p : IsChanged(state, p))

\* main returns: the locals are gone, the run's log becomes the last run's.
EndRun(log) ==
    /\ pc' = "done"
    /\ last_run' = log
    /\ run_log' = NoRun
    /\ files_to_process' = <<>>
    /\ cur' = 0
    /\ new_state' = EmptyDict
    /\ new_bytes' = EmptyDict
    /\ successful_files' = 0
    /\ pd' = NoPd

\* RecursiveCharacterTextSplitter(chunk_size, chunk_overlap, ...) in
\* DocumentIndexer.__init__: langchain's TextSplitter raises ValueError when
\* chunk_overlap is larger than chunk_size, and accepts every other pair.
TextSplitterAccepts(chunk_size, chunk_overlap) == chunk_overlap <= chunk_size

\* main, "indexer = DocumentIndexer()" returns.
DocumentIndexer_init == TextSplitterAccepts(config.CHUNK_SIZE, config.CHUNK_OVERLAP)

\* main, "indexer = DocumentIndexer()" raises: the ValueError leaves main and
\* is logged by __main__ as a critical error.
DocumentIndexer_init_raises ==
    /\ pc = "idle"
    /\ ~DocumentIndexer_init
    /\ EndRun([NewRun EXCEPT !.started = FALSE])
    /\ results' = EmptyDict
    /\ run_start_state' = EmptyDict
    /\ UNCHANGED <<ingest_vars, env_vars, host_vars, store_vars, events, half_done,
                   bytes_at_commit>>

\* A main that goes on to the scan although a startup check returned False.
main_startup_ignored ==
    /\ pc = "idle"
    /\ DocumentIndexer_init
    /\ events < MaxEvents
    /\ events' = events + 1
    /\ \E walk \in WalkOrders :
          files_to_process' = find_changed_files(walk, load_state)
    /\ new_state' = load_state
    /\ new_bytes' = bytes_at_commit
    /\ pc' = "scanned"
    /\ run_start_state' = load_state
    /\ results' = EmptyDict
    /\ run_log' = [NewRun EXCEPT !.started = FALSE]
    /\ UNCHANGED <<ingest_vars, env_vars, host_vars, store_vars, cur, successful_files,
                   pd, last_run, half_done, bytes_at_commit>>

\* main up to the scan, when wait_for_embedding_service or initialize_qdrant
\* returns False: the run ends before anything is read.
main_startup_fails ==
    /\ pc = "idle"
    /\ DocumentIndexer_init
    /\ events < MaxEvents
    /\ events' = events + 1
    /\ EndRun([NewRun EXCEPT !.started = FALSE])
    /\ results' = EmptyDict
    /\ run_start_state' = load_state
    /\ UNCHANGED <<ingest_vars, env_vars, host_vars, store_vars, half_done, bytes_at_commit>>

\* qdrant_client.recreate_collection: the collection of that name is deleted
\* with its points when there is one, and an empty one is created.
recreate_collection(points) == EmptyBag

\* An initialize_qdrant that recreates the collection without asking whether
\* it exists.
initialize_qdrant_recreating(exists, points) == recreate_collection(points)

\* initialize_qdrant, returning True: the points of the collection after
\* "if not collection_exists(...): recreate_collection(...)".
initialize_qdrant(exists, points) ==
    IF ~exists THEN recreate_collection(points) ELSE points

\* main up to the scan: the startup checks pass (initialize_qdrant creates
\* the collection when it does not exist), the state is loaded and the tree
\* is scanned.
main_scan ==
    /\ pc = "idle"
    /\ DocumentIndexer_init
    /\ state_file # NotUtf8
    /\ collection_exists' = TRUE
    /\ qdrant' = initialize_qdrant(collection_exists, qdrant)
    /\ \E walk \in os_walk :
          files_to_process' = find_changed_files(walk, load_state)
    /\ new_state' = load_state
    /\ new_bytes' = bytes_at_commit
    /\ pc' = "scanned"
    /\ run_start_state' = load_state
    /\ results' = EmptyDict
    /\ run_log' = NewRun
    /\ UNCHANGED <<ingest_vars, env_vars, host_vars, state_file, cur, successful_files, pd,
                   events, last_run, half_done, bytes_at_commit>>

\* main, "if not files_to_process: return".
main_check_queue ==
    /\ pc = "scanned"
    /\ IF files_to_process = <<>>
       THEN EndRun([run_log EXCEPT !.finished = TRUE, !.ok = TRUE])
       ELSE /\ pc' = "process"
            /\ cur' = 1
            /\ UNCHANGED <<run_log, last_run, files_to_process, new_state,
                           new_bytes, successful_files, pd>>
    /\ UNCHANGED <<ingest_vars, env_vars, host_vars, store_vars, events, run_start_state, results,
                   half_done, bytes_at_commit>>

\* The process has exited; the next invocation of main starts afresh.
main_returns ==
    /\ pc = "done"
    /\ pc' = "idle"
    /\ results' = EmptyDict
    /\ run_start_state' = EmptyDict
    /\ UNCHANGED <<ingest_vars, env_vars, host_vars, store_vars, main_vars, pd, events, run_log,
                   last_run, half_done, new_bytes, bytes_at_commit>>

\* process_document, first statement: delete_old_document_records(filename).
\* A failing delete is logged and swallowed.
delete_old_document_records ==
    /\ pc = "process"
    /\ LET file_path == files_to_process[cur]
           filename == basename(file_path)
       IN \E ok \in BOOLEAN :
            /\ ok \/ events < MaxEvents
            /\ events' = IF ok THEN events ELSE events + 1
            /\ qdrant' = IF ok THEN DeleteBySource(qdrant, filename) ELSE qdrant
            /\ pd' = [NoPd EXCEPT !.file_path = file_path,
                                  !.filename = filename,
                                  !.issued = {"delete"},
                                  !.ops = <<"delete">>,
                                  !.deleted = filename,
                                  !.delete_ok = ok]
    /\ pc' = "extract"
    /\ run_log' = [run_log EXCEPT !.mut = TRUE]
    /\ UNCHANGED <<ingest_vars, env_vars, host_vars, state_file, collection_exists, main_vars,
                   run_start_state, results, last_run, half_done, new_bytes,
                   bytes_at_commit>>

\* process_document returns a failure result.
ReturnFailure(reason) ==
    /\ pd' = [pd EXCEPT !.result = reason]
    /\ pc' = "result"

\* process_document from the extracted bytes to create_embeddings_batch: no
\* text, no chunks and a failing embedding request each return a failure.
ExtractChunkEmbed(bytes, filename, category) ==
    LET document_text == extract_text(bytes)
        chunks == split_text(document_text)
    IN IF document_text = 0
       THEN ReturnFailure("extract") /\ events' = events
       ELSE IF chunks = <<>>
       THEN ReturnFailure("chunk") /\ events' = events
       ELSE \E fail_at \in 0..Len(chunks) :
              IF fail_at # 0
              THEN /\ events < MaxEvents
                   /\ events' = events + 1
                   /\ ReturnFailure("embed")
              ELSE /\ events' = events
                   /\ pd' = [pd EXCEPT !.filename = filename,
                                       !.text = document_text,
                                       !.points = create_embeddings_batch(
                                                    chunks, filename, category)]
                   /\ pc' = "upload"

\* process_document of a .docx or a .pdf, up to the points.
extract_and_embed ==
    /\ pc = "extract"
    /\ pd.file_path.ext \in {".docx", ".pdf"}
    /\ ExtractChunkEmbed(tree[pd.file_path].bytes, pd.filename, pd.file_path.dir)
    /\ UNCHANGED <<ingest_vars, env_vars, host_vars, store_vars, main_vars, hist_vars>>

\* process_document of a .doc where convert_doc_to_docx returns None: not on
\* Windows, win32com missing, or Word failing.
convert_fails ==
    /\ pc = "extract"
    /\ pd.file_path.ext = ".doc"
    /\ IF win32
       THEN events < MaxEvents /\ events' = events + 1
       ELSE events' = events
    /\ ReturnFailure("convert")
    /\ UNCHANGED <<ingest_vars, env_vars, host_vars, store_vars, main_vars, hist_vars>>

\* process_document of a .doc on Windows: convert_doc_to_docx removes the
\* .doc, writing the .docx first unless one exists; the text is then read
\* from the .docx and filename becomes the .docx's.
convert_and_embed ==
    /\ pc = "extract"
    /\ pd.file_path.ext = ".doc"
    /\ win32
    /\ LET doc == pd.file_path
           docx == docx_of(doc)
           had == tree[docx].exists
           saved == IF had THEN tree[docx] ELSE File(tree[doc].bytes, clock + 1)
       IN /\ tree' = [tree EXCEPT ![doc] = NoFile, ![docx] = saved]
          /\ clock' = IF had THEN clock ELSE clock + 1
          /\ ExtractChunkEmbed(saved.bytes, basename(docx), doc.dir)
    /\ TreeChanged
    /\ UNCHANGED <<ingest_vars, host_vars, store_vars, main_vars, run_start_state, results,
                   half_done, new_bytes, bytes_at_commit>>

\* One call of qdrant_client.upsert: its points and whether it returned.
Batch(points, accepted) == [points |-> points, accepted |-> accepted]

\* An upload whose try is inside the loop: a failed batch is logged and the
\* next one is sent.
upload_batch_in_loop_try ==
    /\ pc = "upload"
    /\ LET batch_size == config.BATCH_SIZE
           n == Len(pd.points)
           batch_points == SubSeq(pd.points, pd.next + 1, Min(pd.next + batch_size, n))
       IN \E ok \in BOOLEAN :
            IF ok
            THEN /\ qdrant' = Upsert(qdrant, batch_points)
                 /\ events' = events
                 /\ half_done' = half_done
                 /\ IF pd.next + batch_size >= n
                    THEN /\ pd' = [pd EXCEPT !.next = n, !.result = "ok",
                                             !.issued = @ \cup {"upsert"},
                                             !.ops = Append(@, "upsert"),
                                             !.sent = Append(@, Batch(batch_points, TRUE))]
                         /\ pc' = "result"
                    ELSE /\ pd' = [pd EXCEPT !.next = @ + batch_size,
                                             !.issued = @ \cup {"upsert"},
                                             !.ops = Append(@, "upsert"),
                                             !.sent = Append(@, Batch(batch_points, TRUE))]
                         /\ pc' = "upload"
            ELSE /\ events < MaxEvents
                 /\ events' = events + 1
                 /\ qdrant' = qdrant
                 /\ half_done' = IF pd.delete_ok
                                 THEN half_done \cup {pd.file_path} ELSE half_done
                 /\ pd' = [pd EXCEPT !.next = Min(@ + batch_size, n),
                                     !.result = IF pd.next + batch_size >= n
                                                THEN "ok" ELSE @,
                                     !.issued = @ \cup {"upsert"},
                                     !.ops = Append(@, "upsert"),
                                     !.sent = Append(@, Batch(batch_points, FALSE))]
                 /\ pc' = IF pd.next + batch_size >= n THEN "result" ELSE "upload"
    /\ UNCHANGED <<ingest_vars, env_vars, host_vars, state_file, collection_exists, main_vars,
                   run_start_state, results, run_log, last_run, new_bytes,
                   bytes_at_commit>>

\* upload_points_to_qdrant, one iteration: the batch starting at pd.next is
\* upserted; an exception ends the upload with False.
upload_batch ==
    /\ pc = "upload"
    /\ LET batch_size == config.BATCH_SIZE
           n == Len(pd.points)
           batch_points == SubSeq(pd.points, pd.next + 1, Min(pd.next + batch_size, n))
       IN \E ok \in BOOLEAN :
            IF ok
            THEN /\ qdrant' = Upsert(qdrant, batch_points)
                 /\ events' = events
                 /\ half_done' = half_done
                 /\ IF pd.next + batch_size >= n
                    THEN /\ pd' = [pd EXCEPT !.next = n, !.result = "ok",
                                             !.issued = @ \cup {"upsert"},
                                             !.ops = Append(@, "upsert"),
                                             !.sent = Append(@, Batch(batch_points, TRUE))]
                         /\ pc' = "result"
                    ELSE /\ pd' = [pd EXCEPT !.next = @ + batch_size,
                                             !.issued = @ \cup {"upsert"},
                                             !.ops = Append(@, "upsert"),
                                             !.sent = Append(@, Batch(batch_points, TRUE))]
                         /\ pc' = "upload"
            ELSE /\ events < MaxEvents
                 /\ events' = events + 1
                 /\ qdrant' = qdrant
                 /\ half_done' = IF pd.delete_ok
                                 THEN half_done \cup {pd.file_path} ELSE half_done
                 /\ pd' = [pd EXCEPT !.result = "upload",
                                     !.issued = @ \cup {"upsert"},
                                     !.ops = Append(@, "upsert"),
                                     !.sent = Append(@, Batch(batch_points, FALSE))]
                 /\ pc' = "result"
    /\ UNCHANGED <<ingest_vars, env_vars, host_vars, state_file, collection_exists, main_vars,
                   run_start_state, results, run_log, last_run, new_bytes,
                   bytes_at_commit>>

\* A loop body that records the file whatever process_document returned.
success_unchecked(result) == TRUE

\* main, "if result.success".
success(result) == result = "ok"

\* A loop that is left after the first document, whatever its result.
main_handle_result_aborting ==
    /\ pc = "result"
    /\ results' = Put(results, pd.file_path, pd.result)
    /\ EndRun(run_log)
    /\ UNCHANGED <<ingest_vars, env_vars, host_vars, store_vars, events,
                   run_start_state, half_done, bytes_at_commit>>

\* main, the body of the loop after process_document returned: a success
\* records the file's modification time as it is now.
main_handle_result ==
    /\ pc = "result"
    /\ LET file_path == pd.file_path
           docx_path == docx_of(file_path)
       IN /\ IF success(pd.result)
             THEN /\ successful_files' = successful_files + 1
                  /\ IF file_path.ext = ".doc"
                     THEN IF tree[docx_path].exists
                          THEN /\ new_state' = Pop(Put(new_state, docx_path,
                                                       tree[docx_path].mtime), file_path)
                               /\ new_bytes' = Pop(Put(new_bytes, docx_path,
                                                       tree[docx_path].bytes), file_path)
                          ELSE /\ new_state' = Pop(new_state, file_path)
                               /\ new_bytes' = Pop(new_bytes, file_path)
                     ELSE /\ new_state' = Put(new_state, file_path, tree[file_path].mtime)
                          /\ new_bytes' = Put(new_bytes, file_path, tree[file_path].bytes)
             ELSE UNCHANGED <<successful_files, new_state, new_bytes>>
          /\ results' = Put(results, file_path, pd.result)
          /\ half_done' = IF pd.result = "ok" THEN half_done \ {file_path}
                          ELSE half_done
    /\ IF cur = Len(files_to_process)
       THEN pc' = "save" /\ cur' = cur
       ELSE pc' = "process" /\ cur' = cur + 1
    /\ UNCHANGED <<ingest_vars, env_vars, host_vars, store_vars, files_to_process, pd, events,
                   run_start_state, run_log, last_run, bytes_at_commit>>

\* save_state: the whole file is rewritten; a failing write is logged and
\* leaves the file as it was.
save_state(state, ok) ==
    /\ state_file' = IF ok THEN json_dump(state) ELSE state_file
    /\ bytes_at_commit' = IF ok THEN new_bytes ELSE bytes_at_commit

\* main after the loop: the state is saved when a file succeeded.
main_save ==
    /\ pc = "save"
    /\ LET all_ok == \A p \in DOMAIN results : results[p] = "ok"
       IN IF successful_files > 0
          THEN \E ok \in BOOLEAN :
                 /\ ok \/ events < MaxEvents
                 /\ events' = IF ok THEN events ELSE events + 1
                 /\ save_state(new_state, ok)
                 /\ EndRun([run_log EXCEPT !.finished = TRUE,
                                           !.ok = all_ok /\ ok,
                                           !.mut = TRUE])
          ELSE /\ events' = events
               /\ UNCHANGED <<state_file, bytes_at_commit>>
               /\ EndRun([run_log EXCEPT !.finished = TRUE])
    /\ UNCHANGED <<ingest_vars, env_vars, host_vars, qdrant, collection_exists, run_start_state,
                   results, half_done>>

\* KeyboardInterrupt, or the process is killed: main ends where it stands.
interrupt ==
    /\ InRun
    /\ events < MaxEvents
    /\ events' = events + 1
    /\ half_done' = IF pc = "upload" /\ pd.delete_ok
                    THEN half_done \cup {pd.file_path} ELSE half_done
    /\ EndRun(run_log)
    /\ UNCHANGED <<ingest_vars, env_vars, host_vars, store_vars, run_start_state, results,
                   bytes_at_commit>>

Next ==
    \/ \E p \in IndexerPaths, b \in Contents : WriteFile(p, b)
    \/ \E p \in IndexerPaths : TouchFile(p)
    \/ main_startup_fails
    \/ main_scan
    \/ main_check_queue
    \/ main_returns
    \/ delete_old_document_records
    \/ extract_and_embed
    \/ convert_fails
    \/ convert_and_embed
    \/ upload_batch
    \/ main_handle_result
    \/ main_save
    \/ interrupt

Spec == Init /\ [][Next]_vars

----------------------------------------------------------------------------
(* rag-indexer/upload.py over the wider tree *)

\* Every file of the wider tree is there; the host is not Windows.
InitWide ==
    /\ tree = [p \in WidePaths |-> File(2, 1)]
    /\ clock = 1
    /\ win32 = FALSE
    /\ config = DefaultConfig
    /\ call = NoCall
    /\ qdrant = EmptyBag
    /\ collection_exists = FALSE
    /\ pc = "idle"
    /\ events = 0
    /\ IndexerIdle
    /\ IngestIdle

\* The steps of Next that a tree without a .doc can take.
NextWide ==
    \/ \E p \in WidePaths, b \in Contents : WriteFile(p, b)
    \/ \E p \in WidePaths : TouchFile(p)
    \/ main_startup_fails
    \/ main_scan
    \/ main_check_queue
    \/ main_returns
    \/ delete_old_document_records
    \/ extract_and_embed
    \/ upload_batch
    \/ main_handle_result
    \/ main_save
    \/ interrupt

SpecWide == InitWide /\ [][NextWide]_vars

----------------------------------------------------------------------------
(* rag-indexer/upload.py under any configuration *)

\* config.py: CHUNK_OVERLAP below, at and above CHUNK_SIZE, and two batch
\* sizes.
IndexerConfigs ==
    {[CHUNK_SIZE |-> 800, CHUNK_OVERLAP |-> o, BATCH_SIZE |-> b] :
        o \in {60, 800, 900}, b \in {BATCH_SIZE, BATCH_SIZE + 1}}

\* The tree holds a/y.pdf, a document of MaxContent + 1 chunks.
InitConfig ==
    /\ tree = [p \in IndexerPaths |->
                IF p.ext = ".pdf" THEN File(MaxContent + 1, 1) ELSE NoFile]
    /\ clock = 1
    /\ win32 \in BOOLEAN
    /\ config \in IndexerConfigs
    /\ call = NoCall
    /\ qdrant = EmptyBag
    /\ collection_exists = FALSE
    /\ pc = "idle"
    /\ events = 0
    /\ IndexerIdle
    /\ IngestIdle

NextConfig ==
    \/ Next
    \/ DocumentIndexer_init_raises

SpecConfig == InitConfig /\ [][NextConfig]_vars

----------------------------------------------------------------------------
(* rag-indexer/upload.py with a state file that gets damaged *)

\* Between two runs the state file is damaged: truncated or overwritten.
state_file_damaged ==
    /\ pc = "idle"
    /\ events < MaxEvents
    /\ events' = events + 1
    /\ state_file' \in {NotJson, NotUtf8}
    /\ bytes_at_commit' = EmptyDict
    /\ UNCHANGED <<ingest_vars, env_vars, host_vars, qdrant, collection_exists, pc,
                   main_vars, pd, run_start_state, results, run_log, last_run,
                   half_done, new_bytes>>

\* main, "state = load_state()": reading the file raises UnicodeDecodeError,
\* which load_state does not catch; it leaves main and is logged by __main__.
load_state_raises ==
    /\ pc = "idle"
    /\ DocumentIndexer_init
    /\ state_file = NotUtf8
    /\ collection_exists' = TRUE
    /\ EndRun(NewRun)
    /\ results' = EmptyDict
    /\ run_start_state' = EmptyDict
    /\ UNCHANGED <<ingest_vars, env_vars, host_vars, state_file, qdrant, events,
                   half_done, bytes_at_commit>>

NextDamaged ==
    \/ Next
    \/ state_file_damaged
    \/ load_state_raises

SpecDamaged == Init /\ [][NextDamaged]_vars

----------------------------------------------------------------------------
(* One uninterrupted run of rag-indexer/upload.py *)

\* The steps of a run of main past its startup checks.
MainStep ==
    \/ main_check_queue
    \/ delete_old_document_records
    \/ extract_and_embed
    \/ convert_fails
    \/ convert_and_embed
    \/ upload_batch
    \/ main_handle_result
    \/ main_save

\* One run of main from a first start, by a scheduler that lets the process
\* take its next step and that nobody interrupts; the tree changes as ever.
NextUninterrupted ==
    \/ \E p \in IndexerPaths, b \in Contents : WriteFile(p, b)
    \/ \E p \in IndexerPaths : TouchFile(p)
    \/ main_startup_fails
    \/ main_scan
    \/ MainStep

SpecUninterrupted == Init /\ [][NextUninterrupted]_vars /\ WF_vars(MainStep)

----------------------------------------------------------------------------
(* rag-ingest/ingest.py: hashes, strings, chunks, the scan *)

\* hashlib.md5(...).hexdigest() of a file's bytes.  The digest is modelled
\* as a number; it has no collision on the contents of the model.
md5(bytes) == (37 * bytes + 11) % 128

\* A hash taken over the file's modification time instead of its bytes.
get_file_hash_of_mtime(path) == md5(tree[path].mtime)

\* get_file_hash: the digest of the bytes the file holds now.
get_file_hash(path) == md5(tree[path].bytes)

\* A string: the characters lo..hi-1 of the text of document version ver.
Str(v, lo, hi) == [ver |-> v, lo |-> lo, hi |-> hi]
StrLen(s) == s.hi - s.lo
\* s[start:end]
Slice(s, start, end) == Str(s.ver, Min(s.lo + start, s.hi), Min(s.lo + end, s.hi))

\* The length of the text of a version: 500 characters for version 1, 1250
\* for version 2, 2000 for version 3; version v fills v chunks.
TextLen(v) == IF v = 0 THEN 0 ELSE (CHUNK_SIZE \div 2) + ((3 * CHUNK_SIZE) \div 4) * (v - 1)

\* parse_docx and parse_pdf of a readable file: the text of its version.
\* parse_pdf returns "" for a file it cannot read, which is bytes 0 here.
parse(bytes) == Str(bytes, 0, TextLen(bytes))

\* chunk_text, the loop from position start on.
RECURSIVE chunk_from(_, _)
chunk_from(text, start) ==
    IF start < StrLen(text)
    THEN <<Slice(text, start, start + CHUNK_SIZE)>>
            \o chunk_from(text, start + (CHUNK_SIZE - CHUNK_OVERLAP))
    ELSE <<>>

chunk_text(text) == chunk_from(text, 0)

\* A chunk_text that starts the next chunk where the last one ended.
RECURSIVE chunk_text_without_overlap(_, _, _, _)
chunk_text_without_overlap(text, size, overlap, start) ==
    IF start < Len(text)
    THEN <<SubSeq(text, start + 1, Min(start + size, Len(text)))>>
            \o chunk_text_without_overlap(text, size, overlap, start + size)
    ELSE <<>>

\* A chunk_text that leaves its loop once a chunk has reached the text's end.
RECURSIVE chunk_text_until_end(_, _, _, _)
chunk_text_until_end(text, size, overlap, start) ==
    IF start < Len(text)
    THEN <<SubSeq(text, start + 1, Min(start + size, Len(text)))>>
            \o (IF start + size >= Len(text) THEN <<>>
                ELSE chunk_text_until_end(text, size, overlap, start + (size - overlap)))
    ELSE <<>>

\* chunk_text(text, size, overlap) over a text written out as its characters:
\* the loop from position start on; text[start:end] ends at the text's end.
RECURSIVE chunk_text_from(_, _, _, _)
chunk_text_from(text, size, overlap, start) ==
    IF start < Len(text)
    THEN <<SubSeq(text, start + 1, Min(start + size, Len(text)))>>
            \o chunk_text_from(text, size, overlap, start + (size - overlap))
    ELSE <<>>

\* The payload of one point of upload_chunks.
IngestPoint(text, source_file, i) ==
    [text |-> text, source_file |-> source_file, chunk_index |-> i]

\* upload_chunks, the loop: the chunks whose index is in failed got no
\* embedding and are skipped; i is the index of the first chunk of chunks.
RECURSIVE embedded_points(_, _, _, _)
embedded_points(chunks, source_file, failed, i) ==
    IF chunks = <<>> THEN <<>>
    ELSE (IF i \in failed THEN <<>>
          ELSE <<IngestPoint(Head(chunks), source_file, i)>>)
            \o embedded_points(Tail(chunks), source_file, failed, i + 1)

InSeq(s, x) == \E k \in 1..Len(s) : s[k] = x

Kind(p) == IF p.ext = ".docx" THEN "docx" ELSE IF p.ext = ".pdf" THEN "pdf"
           ELSE "other"

\* files_map = {}: the stems in insertion order and, per stem and kind, a path.
NoMap == [stems |-> <<>>, variants |-> EmptyDict]

\* process_docs, step 1: files_map.setdefault(path.stem, {})[kind] = path for
\* every .docx and .pdf of the walk.
RECURSIVE scan_files(_, _)
scan_files(walk, files_map) ==
    IF walk = <<>> THEN files_map
    ELSE LET path == Head(walk)
             kind == Kind(path)
             stems == IF InSeq(files_map.stems, path.stem) THEN files_map.stems
                      ELSE Append(files_map.stems, path.stem)
         IN IF tree[path].exists /\ kind # "other"
            THEN scan_files(Tail(walk),
                            [stems |-> stems,
                             variants |-> Put(files_map.variants,
                                              <<path.stem, kind>>, path)])
            ELSE scan_files(Tail(walk), files_map)

\* process_docs, step 2: per stem the .docx if there is one, else the .pdf.
RECURSIVE determine_final_list(_, _)
determine_final_list(stems, variants) ==
    IF stems = <<>> THEN <<>>
    ELSE LET stem == Head(stems)
             rest == determine_final_list(Tail(stems), variants)
         IN IF <<stem, "docx">> \in DOMAIN variants
            THEN <<variants[<<stem, "docx">>]>> \o rest
            ELSE IF <<stem, "pdf">> \in DOMAIN variants
            THEN <<variants[<<stem, "pdf">>]>> \o rest
            ELSE rest

----------------------------------------------------------------------------
(* rag-ingest/ingest.py: process_docs *)

\* The tree at the start: a/r.pdf is there, each other file may be.
InitIngest ==
    /\ tree \in {t \in [IngestPaths -> {NoFile, File(2, 1)}] :
                    t[Path("a", "r", ".pdf")].exists}
    /\ clock = 1
    /\ win32 = FALSE
    /\ config = DefaultConfig
    /\ call = NoCall
    /\ qdrant = EmptyBag
    /\ collection_exists = FALSE
    /\ pc = "idle"
    /\ events = 0
    /\ IndexerIdle
    /\ IngestIdle

\* process_docs ends: its locals are gone.
IngestEnd(how) ==
    /\ pc' = how
    /\ final_files' = <<>>
    /\ icur' = 0
    /\ ip' = NoIp

\* ensure_collection: the collection is missing and the test embedding
\* fails, sys.exit(1).
ensure_collection_exits ==
    /\ pc = "idle"
    /\ ~collection_exists
    /\ events < MaxEvents
    /\ events' = events + 1
    /\ faulted' = TRUE
    /\ IngestEnd("dead")
    /\ UNCHANGED <<indexer_vars, env_vars, qdrant, collection_exists, files_table,
                   scanned, row_of, ilog>>

\* ensure_collection, returning: get_collection answers for a collection
\* that exists and nothing is done; when it raises, the test embedding is
\* made and create_collection creates the collection, empty.
ensure_collection(exists, points) ==
    IF exists THEN points ELSE EmptyBag

\* process_docs up to the loop: init_db, ensure_collection (which creates a
\* missing collection), the walk and the choice per stem.
process_docs_scan ==
    /\ pc = "idle"
    /\ collection_exists' = TRUE
    /\ qdrant' = ensure_collection(collection_exists, qdrant)
    /\ \E walk \in os_walk :
          LET files_map == scan_files(walk, NoMap)
          IN final_files' = determine_final_list(files_map.stems, files_map.variants)
    /\ icur' = 1
    /\ ip' = NoIp
    /\ scanned' = {p \in DOMAIN tree : tree[p].exists}
    /\ ilog' = IF collection_exists THEN {} ELSE {<<"test_embedding", NoIp.path>>}
    /\ pc' = "loop"
    /\ UNCHANGED <<faulted, indexer_vars, env_vars, events, files_table, row_of>>

\* The loop body up to "if row and row[0] == current_hash: continue".
process_docs_check ==
    /\ pc = "loop"
    /\ icur <= Len(final_files)
    /\ LET file_path == final_files[icur]
           current_hash == get_file_hash(file_path)
           row == Get(files_table, file_path)
           unchanged == row # -1 /\ row = current_hash
       IN /\ ip' = [NoIp EXCEPT !.path = file_path,
                                !.current_hash = current_hash,
                                !.row = row,
                                !.bytes = tree[file_path].bytes,
                                !.mtime = tree[file_path].mtime,
                                !.skipped = unchanged]
          /\ ilog' = ilog \cup {<<"hash", file_path>>}
          /\ IF unchanged
             THEN pc' = "loop" /\ icur' = icur + 1
             ELSE pc' = "parse" /\ icur' = icur
    /\ UNCHANGED <<faulted, indexer_vars, env_vars, qdrant, collection_exists, events,
                   files_table, final_files, scanned, row_of>>

\* A loop body without the test "if not text.strip(): continue".
process_docs_parse_unchecked ==
    /\ pc = "parse"
    /\ pc' = IF ip.row # -1 THEN "delete" ELSE "upload"
    /\ ip' = [ip EXCEPT !.chunks = chunk_text(parse(tree[ip.path].bytes))]
    /\ ilog' = ilog \cup {<<"parse", ip.path>>}
    /\ UNCHANGED <<faulted, indexer_vars, env_vars, qdrant, collection_exists,
                   events, files_table, final_files, icur, scanned, row_of>>

\* The loop body from the parse to chunk_text: a document without text is
\* left, "continue".
process_docs_parse ==
    /\ pc = "parse"
    /\ LET text == parse(tree[ip.path].bytes)
       IN IF StrLen(text) = 0
          THEN /\ pc' = "loop"
               /\ icur' = icur + 1
               /\ ip' = ip
          ELSE /\ pc' = IF ip.row # -1 THEN "delete" ELSE "upload"
               /\ icur' = icur
               /\ ip' = [ip EXCEPT !.chunks = chunk_text(text)]
    /\ ilog' = ilog \cup {<<"parse", ip.path>>}
    /\ UNCHANGED <<faulted, indexer_vars, env_vars, qdrant, collection_exists, events,
                   files_table, final_files, scanned, row_of>>

\* parse_docx raises (python-docx cannot open the file): the exception
\* leaves process_docs.
parse_docx_raises ==
    /\ pc = "parse"
    /\ ip.path.ext = ".docx"
    /\ events < MaxEvents
    /\ events' = events + 1
    /\ faulted' = TRUE
    /\ ilog' = ilog \cup {<<"parse", ip.path>>, <<"escaped", ip.path>>}
    /\ IngestEnd("dead")
    /\ UNCHANGED <<indexer_vars, env_vars, qdrant, collection_exists, files_table,
                   scanned, row_of>>

\* "if row: delete_file_chunks(client, file_path.name)"; a failing delete
\* raises out of process_docs.
delete_file_chunks ==
    /\ pc = "delete"
    /\ \E ok \in BOOLEAN :
          IF ok
          THEN /\ qdrant' = DeleteBySource(qdrant, basename(ip.path))
               /\ ilog' = ilog \cup {<<"delete", ip.path>>}
                               \cup (IF PointsOf(qdrant, basename(ip.path)) # EmptyBag
                                     THEN {<<"removed", ip.path>>} ELSE {})
               /\ events' = events
               /\ pc' = "upload"
               /\ ip' = [ip EXCEPT !.ops = Append(@, "delete")]
               /\ UNCHANGED <<final_files, icur, faulted>>
          ELSE /\ events < MaxEvents
               /\ events' = events + 1
               /\ faulted' = TRUE
               /\ qdrant' = qdrant
               /\ ilog' = ilog \cup {<<"delete", ip.path>>, <<"escaped", ip.path>>}
               /\ IngestEnd("dead")
    /\ UNCHANGED <<indexer_vars, env_vars, collection_exists, files_table, scanned,
                   row_of>>

\* An upload that upserts the points and deletes the document's old points
\* only afterwards.
upload_chunks_then_delete ==
    /\ pc = "upload"
    /\ LET points == embedded_points(ip.chunks, basename(ip.path), {}, 0)
       IN /\ qdrant' = DeleteBySource(Upsert(qdrant, points), basename(ip.path))
          /\ ip' = [ip EXCEPT !.ops = @ \o <<"upsert", "delete">>]
    /\ ilog' = ilog \cup {<<"embed", ip.path>>, <<"upsert", ip.path>>,
                          <<"delete", ip.path>>}
    /\ pc' = "commit"
    /\ UNCHANGED <<indexer_vars, env_vars, collection_exists, files_table, scanned,
                   row_of, final_files, icur, faulted, events>>

\* upload_chunks: the chunks that get an embedding become points, which are
\* upserted in one call when there are any; a failing upsert raises out of
\* process_docs.
upload_chunks ==
    /\ pc = "upload"
    /\ \E failed \in SUBSET (0..(Len(ip.chunks) - 1)), ok \in BOOLEAN :
          LET points == embedded_points(ip.chunks, basename(ip.path), failed, 0)
              cost == (IF failed = {} THEN 0 ELSE 1) + (IF ok THEN 0 ELSE 1)
          IN /\ ok \/ points # <<>>
             /\ events + cost <= MaxEvents
             /\ events' = events + cost
             /\ faulted' = (faulted \/ cost > 0)
             /\ ilog' = ilog \cup {<<"embed", ip.path>>}
                             \cup (IF points # <<>> THEN {<<"upsert", ip.path>>}
                                   ELSE {})
                             \cup (IF ok THEN {} ELSE {<<"escaped", ip.path>>})
             /\ IF ok
                THEN /\ qdrant' = Upsert(qdrant, points)
                     /\ ip' = [ip EXCEPT !.embed_failed = failed # {},
                                          !.ops = IF points # <<>>
                                                  THEN Append(@, "upsert") ELSE @]
                     /\ pc' = "commit"
                     /\ UNCHANGED <<final_files, icur>>
                ELSE /\ qdrant' = qdrant
                     /\ IngestEnd("dead")
    /\ UNCHANGED <<indexer_vars, env_vars, collection_exists, files_table, scanned,
                   row_of>>

\* INSERT OR REPLACE INTO files and conn.commit().
process_docs_commit ==
    /\ pc = "commit"
    /\ files_table' = Put(files_table, ip.path, ip.current_hash)
    /\ row_of' = Put(row_of, ip.path, [bytes |-> ip.bytes, mtime |-> ip.mtime])
    /\ ip' = [ip EXCEPT !.committed = TRUE]
    /\ ilog' = ilog \cup {<<"row", ip.path>>}
    /\ pc' = "loop"
    /\ icur' = icur + 1
    /\ UNCHANGED <<faulted, indexer_vars, env_vars, qdrant, collection_exists, events,
                   final_files, scanned>>

\* The loop is over: conn.close(), "Ingestion complete."
process_docs_complete ==
    /\ pc = "loop"
    /\ icur > Len(final_files)
    /\ IngestEnd("done")
    /\ UNCHANGED <<faulted, indexer_vars, env_vars, qdrant, collection_exists, events,
                   files_table, scanned, row_of, ilog>>

\* The process is killed where it stands.
process_docs_killed ==
    /\ InRun
    /\ events < MaxEvents
    /\ events' = events + 1
    /\ faulted' = TRUE
    /\ IngestEnd("dead")
    /\ UNCHANGED <<indexer_vars, env_vars, qdrant, collection_exists, files_table,
                   scanned, row_of, ilog>>

\* The process has exited; the next invocation starts afresh.
ingest_returns ==
    /\ pc \in {"done", "dead"}
    /\ pc' = "idle"
    /\ scanned' = {}
    /\ ilog' = {}
    /\ UNCHANGED <<faulted, indexer_vars, env_vars, qdrant, collection_exists, events,
                   files_table, final_files, icur, ip, row_of>>

NextIngest ==
    \/ \E p \in IngestPaths, b \in Contents : WriteFile(p, b)
    \/ \E p \in IngestPaths : TouchFile(p)
    \/ ensure_collection_exits
    \/ process_docs_scan
    \/ process_docs_check
    \/ process_docs_parse
    \/ parse_docx_raises
    \/ delete_file_chunks
    \/ upload_chunks
    \/ process_docs_commit
    \/ process_docs_complete
    \/ process_docs_killed
    \/ ingest_returns

SpecIngest == InitIngest /\ [][NextIngest]_vars

----------------------------------------------------------------------------
(* rag-ingest/ingest.py over the tree of the concrete scenario *)

\* policy.docx holds 2000 characters of text and memo.pdf 500;
\* policy_old.pdf holds any content, also none that can be extracted.
InitScenario ==
    /\ \E old \in Contents :
          tree = [p \in ScenarioPaths |->
                    IF p.stem = "policy" THEN File(3, 1)
                    ELSE IF p.stem = "memo" THEN File(1, 1)
                    ELSE File(old, 1)]
    /\ clock = 1
    /\ win32 = FALSE
    /\ config = DefaultConfig
    /\ call = NoCall
    /\ qdrant = EmptyBag
    /\ collection_exists = FALSE
    /\ pc = "idle"
    /\ events = 0
    /\ IndexerIdle
    /\ IngestIdle

\* The runs of ingest.py over a tree that nobody changes: a document with a
\* row is unchanged and skipped, so "if row: delete_file_chunks" is never
\* reached.
NextScenario ==
    \/ ensure_collection_exits
    \/ process_docs_scan
    \/ process_docs_check
    \/ process_docs_parse
    \/ parse_docx_raises
    \/ upload_chunks
    \/ process_docs_commit
    \/ process_docs_complete
    \/ process_docs_killed
    \/ ingest_returns

SpecScenario == InitScenario /\ [][NextScenario]_vars

----------------------------------------------------------------------------
(* rag-ingest/ingest.py: chunk_text called on its own *)

Chars == {"a", "b"}
Texts == UNION {[1..n -> Chars] : n \in 0..MaxLen}

\* The arguments of the call: any text, and 0 <= overlap < size.
InitChunk ==
    /\ tree = [p \in IngestPaths |-> NoFile]
    /\ clock = 1
    /\ win32 = FALSE
    /\ config = DefaultConfig
    /\ \E text \in Texts, size \in 1..MaxSize :
          \E overlap \in 0..(size - 1) :
             call = [NoCall EXCEPT !.text = text, !.size = size,
                                   !.overlap = overlap]
    /\ qdrant = EmptyBag
    /\ collection_exists = FALSE
    /\ pc = "idle"
    /\ events = 0
    /\ IndexerIdle
    /\ IngestIdle

\* chunk_text(text, size, overlap) returns its chunks.
chunk_text_call ==
    /\ ~call.returned
    /\ call' = [call EXCEPT
                  !.chunks = chunk_text_from(call.text, call.size, call.overlap, 0),
                  !.returned = TRUE]
    /\ UNCHANGED <<env_vars, win32, config, store_vars, pc, main_vars, pd, events,
                   hist_vars, ingest_vars>>

\* The caller drops the result and calls again.
chunk_text_again ==
    /\ call.returned
    /\ call' = [call EXCEPT !.chunks = <<>>, !.returned = FALSE]
    /\ UNCHANGED <<env_vars, win32, config, store_vars, pc, main_vars, pd, events,
                   hist_vars, ingest_vars>>

NextChunk ==
    \/ chunk_text_call
    \/ chunk_text_again

SpecChunk == InitChunk /\ [][NextChunk]_vars

----------------------------------------------------------------------------
(* rag-ingest/clear_data.py between the runs of ingest.py *)

\* clear_data.py, confirmed: clear_qdrant deletes the collection, or logs that
\* it could not (no client, an error of the delete) and returns; clear_db runs
\* whatever clear_qdrant did, and removes the database file, or logs that it
\* could not; the next init_db creates an empty files table. The log of the
\* reset tells which of the two was done.
clear_data ==
    /\ pc = "idle"
    /\ events < MaxEvents
    /\ events' = events + 1
    /\ \E cleared \in BOOLEAN, removed \in BOOLEAN :
          /\ qdrant' = IF cleared THEN EmptyBag ELSE qdrant
          /\ collection_exists' = IF cleared THEN FALSE ELSE collection_exists
          /\ files_table' = IF removed THEN EmptyDict ELSE files_table
          /\ row_of' = IF removed THEN EmptyDict ELSE row_of
          /\ ilog' = (IF cleared THEN {<<"clear_qdrant", NoIp.path>>} ELSE {})
                        \cup (IF removed THEN {<<"clear_db", NoIp.path>>} ELSE {})
    /\ UNCHANGED <<indexer_vars, env_vars, pc, final_files, icur, ip, scanned, faulted>>

NextCleared ==
    \/ NextIngest
    \/ clear_data

SpecCleared == InitIngest /\ [][NextCleared]_vars

----------------------------------------------------------------------------
(* Either program, over its own tree *)

\* Either program starts over a tree in which every file is present.
InitBoth ==
    /\ Init \/ InitIngest
    /\ \A p \in DOMAIN tree : tree[p].exists

NextBoth ==
    \/ DOMAIN tree = IndexerPaths /\ Next
    \/ DOMAIN tree = IngestPaths /\ NextIngest

SpecBoth == InitBoth /\ [][NextBoth]_vars

----------------------------------------------------------------------------
(* rag-indexer/upload.py: wait_for_embedding_service called on its own *)

\* for _ in range(30)
ATTEMPTS == 30

\* What one requests.get(url, timeout=5) of the /health route can give: the
\* answer of rag-embedding's health_check, which is sent with HTTP 200 and
\* tells "healthy" with an OpenAI client and "unhealthy" without one; an
\* answer with another status code, from a server that is starting or from
\* a gateway; or a requests.RequestException (refused, timed out).
health_check(openai_client) ==
    [raised |-> FALSE, status_code |-> 200,
     status |-> IF openai_client THEN "healthy" ELSE "unhealthy"]
ErrorAnswers ==
    {[raised |-> FALSE, status_code |-> c, status |-> ""] : c \in {500, 503}}
RequestException == [raised |-> TRUE, status_code |-> 0, status |-> ""]
Answers ==
    {health_check(c) : c \in BOOLEAN} \cup ErrorAnswers \cup {RequestException}

\* The call before its first attempt.  attempts counts the requests sent,
\* failed those that raised or were not answered with 200; answer is the
\* last one; result is "none" until the call returns.
NoWait == [attempts |-> 0, failed |-> 0, answer |-> RequestException,
           result |-> "none"]

InitWait ==
    /\ tree = [p \in IndexerPaths |-> NoFile]
    /\ clock = 1
    /\ win32 = FALSE
    /\ config = DefaultConfig
    /\ call = NoWait
    /\ qdrant = EmptyBag
    /\ collection_exists = FALSE
    /\ pc = "idle"
    /\ events = 0
    /\ IndexerIdle
    /\ IngestIdle

\* The loop goes on after an answer with HTTP 200, and the call returns True
\* after its last attempt when any attempt was answered so.
wait_for_embedding_service_to_the_end ==
    /\ call.result = "none"
    /\ call.attempts < ATTEMPTS
    /\ \E answer \in Answers :
          LET passed == ~answer.raised /\ answer.status_code = 200
              failed == call.failed + (IF passed THEN 0 ELSE 1)
          IN  call' = [attempts |-> call.attempts + 1,
                       failed   |-> failed,
                       answer   |-> answer,
                       result   |-> IF call.attempts + 1 < ATTEMPTS THEN "none"
                                    ELSE IF failed < ATTEMPTS THEN "True"
                                    ELSE "False"]
    /\ UNCHANGED <<env_vars, win32, config, store_vars, pc, main_vars, pd, events,
                   hist_vars, ingest_vars>>

\* One pass of the loop of wait_for_embedding_service: the request; return
\* True when it was answered with status code 200; otherwise (a
\* RequestException is passed over) sleep, and after the last pass return
\* False.
wait_for_embedding_service ==
    /\ call.result = "none"
    /\ call.attempts < ATTEMPTS
    /\ \E answer \in Answers :
          LET passed == ~answer.raised /\ answer.status_code = 200
          IN  call' = [attempts |-> call.attempts + 1,
                       failed   |-> call.failed + (IF passed THEN 0 ELSE 1),
                       answer   |-> answer,
                       result   |-> IF passed THEN "True"
                                    ELSE IF call.attempts + 1 = ATTEMPTS THEN "False"
                                    ELSE "none"]
    /\ UNCHANGED <<env_vars, win32, config, store_vars, pc, main_vars, pd, events,
                   hist_vars, ingest_vars>>

NextWait == wait_for_embedding_service

\* requests.get returns or raises within its timeout and time.sleep(2)
\* returns, so a pass of the loop that can be taken is taken.
SpecWait == InitWait /\ [][NextWait]_vars /\ WF_vars(wait_for_embedding_service)

----------------------------------------------------------------------------
(* rag-yandex-bot/bot.py: the polling loop of main *)

\* client.get_updates(offset=offset, limit=10)
LIMIT == 10

\* The updates the server holds have the ids 0..MaxUpdate.  What an update
\* carries decides its branch: "text", "file" (or voice) and "callback_data"
\* are handled, "other" has none of these keys, and "null" has a message
\* that is no dict, so that '"text" in message' raises.
UpdateIds == 0..MaxUpdate
UpdateKinds == {"text", "file", "callback_data", "other", "null"}

\* The lists a getUpdates request for offset can be answered with: updates
\* the server holds whose id is at least offset, each once, in any order,
\* at most limit of them.
Batches(offset, limit) ==
    LET ids == {u \in UpdateIds : u >= offset}
    IN  {b \in UNION {[1..n -> ids] : n \in 0..Cardinality(ids)} :
            /\ Len(b) <= limit
            /\ \A i, j \in 1..Len(b) : b[i] = b[j] => i = j}

\* YandexMessengerClient.get_updates: the "updates" of a response that has
\* them; None, which the loop takes like an empty list, after a failed
\* request or an answer without "updates".
get_updates(offset, limit) ==
    {[none |-> TRUE, updates |-> <<>>]}
        \cup {[none |-> FALSE, updates |-> b] : b \in Batches(offset, limit)}

\* main when the loop is entered: offset = 0.  updates and i are the list
\* and the position of the for loop; dispatched and failed_at are history:
\* the ids of the updates handed to a handler, in order, and how many there
\* were when an iteration last ended in the except branch (-1: none did).
NoBot(kinds) ==
    [at |-> "get_updates", offset |-> 0, updates |-> <<>>, i |-> 0,
     kinds |-> kinds, dispatched |-> <<>>, failed_at |-> -1]

InitBot ==
    /\ tree = [p \in IndexerPaths |-> NoFile]
    /\ clock = 1
    /\ win32 = FALSE
    /\ config = DefaultConfig
    /\ \E kinds \in [UpdateIds -> UpdateKinds] : call = NoBot(kinds)
    /\ qdrant = EmptyBag
    /\ collection_exists = FALSE
    /\ pc = "idle"
    /\ events = 0
    /\ IndexerIdle
    /\ IngestIdle

\* "updates = await client.get_updates(...)"; "if not updates: sleep(1);
\* continue"; otherwise the for loop is entered.
main_get_updates ==
    /\ call.at = "get_updates"
    /\ \E response \in get_updates(call.offset, LIMIT) :
          IF response.none \/ response.updates = <<>>
          THEN call' = call
          ELSE call' = [call EXCEPT !.at = "for", !.updates = response.updates,
                                    !.i = 1]
    /\ UNCHANGED <<env_vars, win32, config, store_vars, pc, main_vars, pd, events,
                   hist_vars, ingest_vars>>

\* The end of one pass of the for loop: the next update, the next request
\* after the last update, or the except branch (sleep(5)) and the next
\* request.
NextUpdate(c, raised) ==
    IF raised
    THEN [c EXCEPT !.at = "get_updates", !.updates = <<>>, !.i = 0,
                   !.failed_at = Len(c.dispatched)]
    ELSE IF c.i = Len(c.updates)
    THEN [c EXCEPT !.at = "get_updates", !.updates = <<>>, !.i = 0]
    ELSE [c EXCEPT !.i = c.i + 1]

\* A pass of the for loop that sets offset to update_id + 1.
main_update_without_max ==
    /\ call.at = "for"
    /\ LET update_id == call.updates[call.i]
           kind == call.kinds[update_id]
           handled == kind \in {"text", "file", "callback_data"}
       IN  \E raised \in BOOLEAN :
              /\ kind = "null" => raised
              /\ kind \in {"text", "callback_data", "other"} => ~raised
              /\ call' = NextUpdate(
                    [call EXCEPT
                       !.offset = update_id + 1,
                       !.dispatched = IF handled THEN Append(@, update_id) ELSE @],
                    raised)
    /\ UNCHANGED <<env_vars, win32, config, store_vars, pc, main_vars, pd, events,
                   hist_vars, ingest_vars>>

\* One pass of the for loop: offset = max(offset, update_id + 1), then the
\* branch of the update: a task for handle_text_message or for
\* handle_callback_query, the answer to a file (whose lookup of the sender
\* or whose send may raise), nothing for an update without these keys; the
\* test of a message that is no dict raises.
main_update ==
    /\ call.at = "for"
    /\ LET update_id == call.updates[call.i]
           kind == call.kinds[update_id]
           handled == kind \in {"text", "file", "callback_data"}
       IN  \E raised \in BOOLEAN :
              /\ kind = "null" => raised
              /\ kind \in {"text", "callback_data", "other"} => ~raised
              /\ call' = NextUpdate(
                    [call EXCEPT
                       !.offset = IF @ >= update_id + 1 THEN @ ELSE update_id + 1,
                       !.dispatched = IF handled THEN Append(@, update_id) ELSE @],
                    raised)
    /\ UNCHANGED <<env_vars, win32, config, store_vars, pc, main_vars, pd, events,
                   hist_vars, ingest_vars>>

NextBot ==
    \/ main_get_updates
    \/ main_update

SpecBot == InitBot /\ [][NextBot]_vars

----------------------------------------------------------------------------
(* Properties of rag-indexer/upload.py *)

Record(state, p) == Get(state, p)
Queued(p) == \E k \in 1..Len(files_to_process) : files_to_process[k] = p
Returned == pc = "result"

\* C1: when process_document returns success, the points of the collection
\* whose source_file is the document's are exactly the points built from the
\* chunks of that pass: one per chunk, none left from an earlier version.
C1_PointsAreThisPass ==
    (Returned /\ pd.result = "ok") =>
        PointsOf(qdrant, pd.filename) = SeqToBag(pd.points)

\* C2: a pass whose delete succeeded and whose upsert then failed leaves the
\* document's state record as the run found it; and when a later pass of that
\* document succeeds, the collection holds exactly that pass's points for it.
C2_FailedUpsertThenRetry ==
    /\ pc = "done" =>
          \A p \in DOMAIN results :
             (results[p] = "upload" /\ p \in half_done) =>
                Record(json_load(state_file), p) = Record(run_start_state, p)
    /\ (Returned /\ pd.result = "ok" /\ pd.file_path \in half_done) =>
          PointsOf(qdrant, pd.filename) = SeqToBag(pd.points)

\* C4: a pass that fails in conversion, extraction, chunking or embedding has
\* issued neither a delete nor an upsert.
C4_FailedPassLeavesStoreAlone ==
    (Returned /\ pd.result \in {"convert", "extract", "chunk", "embed"}) =>
        pd.issued = {}

doc_of(p) == [p EXCEPT !.ext = ".doc"]

C8_QueuedIffBytesChanged ==
    pc = "scanned" =>
        \A p \in DOMAIN new_state :
           tree[p].exists => (Queued(p) <=> tree[p].bytes # new_bytes[p])

\* The log of the run that is running or has just ended.
Log == IF pc = "done" THEN last_run ELSE run_log

\* C11: a run of main whose startup checks did not pass ends at once: it calls
\* process_document for no file, issues no delete and no upsert and does not
\* write the state file.
C11_FailedStartupTouchesNothing ==
    (pc # "idle" /\ ~Log.started) =>
        /\ pc = "done"
        /\ ~Log.mut
        /\ results = EmptyDict
        /\ pd = NoPd

\* A run has ended on a failed startup check while the collection holds
\* points and the tree holds a file the state does not record.
C11_Witness ==
    /\ pc = "done"
    /\ ~last_run.started
    /\ qdrant # EmptyBag
    /\ \E p \in IndexerPaths : IsChanged(load_state, p)

\* C14: in a run that passed its startup checks and is not interrupted, every
\* queued file gets a result of process_document, success or failure, and the
\* run reaches the state-saving step; a result is recorded for a file once.
C14_EveryQueuedFileGetsAResult ==
    /\ (pc = "scanned" /\ files_to_process # <<>>) ~> (pc = "save")
    /\ [](pc = "save" =>
            \A p \in IndexerPaths :
               Queued(p) =>
                  /\ p \in DOMAIN results
                  /\ results[p] \in {"ok", "convert", "extract", "chunk", "embed",
                                     "upload"})
    /\ [][results' # results /\ results' # EmptyDict =>
              \E p \in DOMAIN results' \ DOMAIN results :
                 results' = Put(results, p, results'[p])]_vars

\* The run is at its state-saving step after one file failed and another
\* succeeded.
C14_Witness ==
    /\ pc = "save"
    /\ \E p \in DOMAIN results : results[p] = "ok"
    /\ \E p \in DOMAIN results : results[p] # "ok"

\* C16: a pass whose delete of the old points failed issues no upsert and
\* does not return success, so that its state record is not updated.
C16_FailedDeleteAbortsPass ==
    ("delete" \in pd.issued /\ ~pd.delete_ok) =>
        ("upsert" \notin pd.issued /\ pd.result # "ok")

\* p is a file find_changed_files looks at.
Supported(p) == tree[p].exists /\ p.stem # "~" /\ p.ext \in SUPPORTED_EXTENSIONS

\* C18: a run that passes its startup checks with a state file that cannot be
\* parsed goes on with an empty state: it is not aborted and it queues every
\* supported file of the tree.
C18_UnparsableStateMeansFullScan ==
    [][(pc = "idle" /\ state_file \in {NotJson, NotUtf8} /\ pc' # "idle"
          /\ Log'.started) =>
            (pc' = "scanned" /\ \A p \in IndexerPaths : Supported(p) => Queued(p)')
      ]_vars

\* C28: the points a pass of process_document gets embedded carry, as
\* source_file, the name the pass asked the collection to delete.
C28_DeletedNameIsUpsertedName ==
    \A k \in 1..Len(pd.points) : pd.points[k].source_file = pd.deleted

\* C29: when main records a .docx or .pdf after a successful pass, the
\* modification time it records is that of the version whose text the pass
\* extracted and indexed.
C29_RecordIsOfIndexedVersion ==
    [][(pc = "result" /\ pd.result = "ok" /\ pd.file_path.ext # ".doc"
          /\ pc' \in {"process", "save"}) =>
            (pd.file_path \in DOMAIN new_bytes'
               /\ new_bytes'[pd.file_path] = pd.text)]_vars

----------------------------------------------------------------------------
(* Properties of rag-ingest/ingest.py *)

Logged(op, p) == <<op, p>> \in ilog
SameStemPair(d, p) ==
    d.ext = ".docx" /\ p.ext = ".pdf" /\ d.stem = p.stem

\* C3: when get_embedding failed for at least one chunk of a document, the
\* pass does not insert or replace the document's row in the files table.
C3_EmbeddingFailureLeavesNoRow ==
    ip.embed_failed => ~ip.committed

\* C7: a selected document that has a row is skipped exactly when the bytes it
\* holds when hashed are the bytes its row was hashed from, whatever its
\* modification time; and a skipped document gets no delete, no upsert and no
\* row write in the run.
C7_SkippedIffSameBytes ==
    (ip.path # NoIp.path /\ ip.row # -1 /\ ~ip.committed) =>
        /\ ip.skipped <=> (ip.bytes = row_of[ip.path].bytes)
        /\ ip.skipped => \A op \in {"delete", "upsert", "row"} : ~Logged(op, ip.path)

\* A document is skipped although its modification time is no longer the one
\* it had when its row was written.
C7_Witness ==
    /\ ip.skipped
    /\ ip.mtime # row_of[ip.path].mtime
    /\ pc = "loop"

\* C9: when a .docx and a .pdf of the same stem were in the same directory
\* at the walk, that .docx is in final_files and is processed, the .pdf is not
\* in final_files, and nothing is hashed, embedded, upserted or written to the
\* files table for the .pdf in the run.
C9_DocxSelectedPdfNot ==
    \A d \in scanned, p \in scanned :
       (SameStemPair(d, p) /\ d.dir = p.dir) =>
          /\ InRun => InSeq(final_files, d) /\ ~InSeq(final_files, p)
          /\ pc = "done" => Logged("hash", d)
          /\ \A op \in {"hash", "embed", "upsert", "row"} : ~Logged(op, p)

\* C10: at the end of a completed run that found a .docx and a .pdf of the
\* same stem in the tree, with no external call failed and no run killed so
\* far, the collection holds no point whose source_file is the .pdf.
C10_NoPdfPointsBesideDocx ==
    (pc = "done" /\ ~faulted) =>
       \A d \in scanned, p \in scanned :
          SameStemPair(d, p) => PointsOf(qdrant, basename(p)) = EmptyBag

\* No embedding request of the run has returned an embedding: the collection
\* existed, so ensure_collection asked for none, and no document got a point.
EmbeddingDown == ~\E e \in ilog : e[1] \in {"test_embedding", "upsert"}

\* C12: a completed run in which every embedding request failed has removed
\* the points of no document and has written no row of the files table.
C12_EmbeddingDownRunIsHarmless ==
    (pc = "done" /\ EmbeddingDown) =>
        \A p \in IngestPaths : ~Logged("removed", p) /\ ~Logged("row", p)

\* C13: no exception raised while a document is parsed, its points deleted
\* or its points upserted leaves process_docs; the run goes on to the next
\* document.
C13_NoExceptionLeavesProcessDocs ==
    \A p \in IngestPaths : ~Logged("escaped", p)

\* No other file of the tree has the file name of p.
UniqueName(p) == \A q \in IngestPaths : q # p => basename(q) # basename(p)

\* The points a pass makes of its chunks when every embedding succeeds.
PassPoints == SeqToBag(embedded_points(ip.chunks, basename(ip.path), {}, 0))

\* C17: a pass that finds no row for its document, the document being new or
\* an earlier pass of it having stopped before its row was committed, leaves
\* the collection with exactly one point per chunk of the document.
C17_RetryLeavesOnePointPerChunk ==
    (pc = "commit" /\ ip.row = -1 /\ ~ip.embed_failed /\ UniqueName(ip.path)) =>
        PointsOf(qdrant, basename(ip.path)) = PassPoints

\* C19: with no external call failed and no run killed, a pass that finds
\* no row for its document, the state being empty while the collection may
\* hold points of earlier runs, leaves only the points of this pass for it.
C19_ReindexLeavesOnlyNewPoints ==
    (pc = "commit" /\ ~faulted /\ ip.row = -1 /\ UniqueName(ip.path)) =>
        PointsOf(qdrant, basename(ip.path)) = PassPoints

\* C30: during a run, final_files holds every .docx of the walked tree, and
\* every .pdf that had no .docx of its stem in its own directory; files of
\* the same stem in different directories are all selected.
C30_EveryTopPriorityFileSelected ==
    InRun =>
        \A p \in scanned :
            (p.ext \in {".docx", ".pdf"}
               /\ ~\E d \in scanned : SameStemPair(d, p) /\ d.dir = p.dir) =>
                InSeq(final_files, p)

----------------------------------------------------------------------------
(* Properties of both programs *)

\* In the store calls of a pass, in the order they were issued, every delete
\* stands before every upsert.
DeleteBeforeUpsert(ops) ==
    \A i \in 1..Len(ops), j \in 1..Len(ops) :
       (ops[i] = "delete" /\ ops[j] = "upsert") => i < j

\* C15: within one pass of a document, in upload.py process_document and in
\* ingest.py process_docs, no delete for the document is issued after an
\* upsert of the pass.
C15_DeleteNeverAfterUpsert ==
    DeleteBeforeUpsert(pd.ops) /\ DeleteBeforeUpsert(ip.ops)

\* A pass of process_docs has deleted the document's points and upserted
\* the new ones.
C15_Witness ==
    /\ pc = "commit"
    /\ ip.ops = <<"delete", "upsert">>

\* C20: a pass over a document without text makes no chunks, issues no
\* upsert and commits no state record.  In upload.py process_document
\* returns the failure of the extraction, main records nothing for it, and a
\* pass that returns success had text and points; in ingest.py the pass ends
\* with no upsert and no row written.
C20_EmptyTextIsNotIndexed ==
    /\ [](pd.result = "extract" => (pd.points = <<>> /\ "upsert" \notin pd.issued))
    /\ [](pd.result = "ok" => (pd.text # 0 /\ pd.points # <<>>))
    /\ [][(pc = "result" /\ pd.result = "extract" /\ pc' \in {"process", "save"}) =>
            (new_state' = new_state /\ successful_files' = successful_files
               /\ results'[pd.file_path] = "extract")]_vars
    /\ []((pc = "loop" /\ ip.path # NoIp.path /\ ~ip.skipped /\ ip.chunks = <<>>) =>
            (~ip.committed /\ ip.ops = <<>> /\ ~Logged("upsert", ip.path)
               /\ ~Logged("row", ip.path)))

\* process_document has returned the extraction failure for a file that
\* holds no text.
C20_Witness ==
    /\ pc = "result"
    /\ pd.result = "extract"
    /\ tree[pd.file_path].exists
    /\ tree[pd.file_path].bytes = 0

----------------------------------------------------------------------------
(* Properties of chunk_text *)

\* s[n:]
DropFirst(s, n) == SubSeq(s, n + 1, Len(s))
\* s[-n:] for n > 0, and the empty string for n = 0
LastOf(s, n) == SubSeq(s, Len(s) - n + 1, Len(s))

\* The first chunk followed by every later chunk without its first overlap
\* characters.
RECURSIVE JoinStripped(_, _)
JoinStripped(chunks, overlap) ==
    IF chunks = <<>> THEN <<>>
    ELSE JoinStripped(SubSeq(chunks, 1, Len(chunks) - 1), overlap)
            \o (IF Len(chunks) = 1 THEN chunks[1]
                ELSE DropFirst(chunks[Len(chunks)], overlap))

\* C21: the first chunk of chunk_text(text, size, overlap) followed by every
\* later chunk stripped of its first overlap characters is the text itself.
C21_ChunksRebuildText ==
    call.returned => JoinStripped(call.chunks, call.overlap) = call.text

\* A text of several chunks with an overlap has been chunked.
C21_Witness ==
    /\ call.returned
    /\ Len(call.chunks) >= 3
    /\ call.overlap > 0
    /\ \E i, j \in 1..Len(call.text) : call.text[i] # call.text[j]

\* C22: every chunk of chunk_text(text, size, overlap) is non-empty and at
\* most size characters long, and the last overlap characters of a chunk are
\* the first overlap characters of the next one.
C22_AdjacentChunksShareOverlap ==
    call.returned =>
        /\ \A i \in 1..Len(call.chunks) :
              Len(call.chunks[i]) >= 1 /\ Len(call.chunks[i]) <= call.size
        /\ \A i \in 1..(Len(call.chunks) - 1) :
              /\ Len(call.chunks[i]) >= call.overlap
              /\ Len(call.chunks[i + 1]) >= call.overlap
              /\ LastOf(call.chunks[i], call.overlap)
                    = SubSeq(call.chunks[i + 1], 1, call.overlap)

----------------------------------------------------------------------------
(* Properties of the concrete scenario *)

\* The number of points of the collection whose payload names the file.
CountOf(stem, ext) == BagCardinality(PointsOf(qdrant, [stem |-> stem, ext |-> ext]))

\* C23: a completed run of ingest.py over policy.docx (2000 characters),
\* policy_old.pdf and memo.pdf (500 characters), from an empty state and with
\* no failure, leaves 3 points of policy.docx, 1 point of memo.pdf and no
\* point of policy_old.pdf.
C23_ScenarioPointCounts ==
    (pc = "done" /\ ~faulted) =>
        /\ CountOf("policy", ".docx") = 3
        /\ CountOf("memo", ".pdf") = 1
        /\ CountOf("policy_old", ".pdf") = 0

----------------------------------------------------------------------------
(* Properties of rag-indexer/upload.py under any configuration *)

\* C24: with CHUNK_OVERLAP >= CHUNK_SIZE no run gets past its startup: no
\* file is scanned or processed, and the collection and the state file are
\* as they were.
C24_DegenerateConfigRejected ==
    config.CHUNK_OVERLAP >= config.CHUNK_SIZE =>
        /\ pc \in {"idle", "done"}
        /\ ~Log.started
        /\ files_to_process = <<>>
        /\ qdrant = EmptyBag
        /\ ~collection_exists
        /\ state_file = {}

\* The points of the batches, in the order sent.
RECURSIVE PointsSent(_)
PointsSent(sent) ==
    IF sent = <<>> THEN <<>>
    ELSE PointsSent(SubSeq(sent, 1, Len(sent) - 1)) \o sent[Len(sent)].points

\* C26: the batches upload_points_to_qdrant sends are consecutive pieces of
\* the list of points, each of BATCH_SIZE points but a shorter last one; a
\* batch that fails is the last one sent and the result is then a failure;
\* the result is a success only when every point was sent and every batch
\* accepted.
C26_BatchesPartitionPoints ==
    LET sent == pd.sent
        all == PointsSent(sent)
    IN /\ Len(all) <= Len(pd.points)
       /\ all = SubSeq(pd.points, 1, Len(all))
       /\ \A i \in 1..Len(sent) :
             /\ Len(sent[i].points) >= 1
             /\ Len(sent[i].points) <= config.BATCH_SIZE
             /\ i < Len(sent) =>
                   (Len(sent[i].points) = config.BATCH_SIZE /\ sent[i].accepted)
       /\ (sent # <<>> /\ ~sent[Len(sent)].accepted) =>
             (pc # "upload" /\ pd.result = "upload")
       /\ pd.result = "ok" =>
             (all = pd.points /\ \A i \in 1..Len(sent) : sent[i].accepted)
       /\ (pc = "result" /\ pd.points # <<>>
             /\ all = pd.points /\ \A i \in 1..Len(sent) : sent[i].accepted) =>
             pd.result = "ok"

\* An upload of three points in a batch of two and a batch of one has
\* returned True.
C26_Witness ==
    /\ pc = "result"
    /\ pd.result = "ok"
    /\ Len(pd.sent) = 2
    /\ Len(pd.sent[1].points) = 2
    /\ Len(pd.sent[2].points) = 1

----------------------------------------------------------------------------
(* Properties of rag-indexer/upload.py over the wider tree *)

\* The file name starts with "~".
Temporary(p) == p.stem = "~"

\* C25: right after the scan, a file is queued exactly when it exists, its
\* name does not start with "~", its extension is .docx, .pdf or .doc, and
\* the loaded state has no record of it or a record that differs from its
\* modification time.
C25_QueuedIffSupportedAndChanged ==
    (pc = "scanned" /\ run_log.clean) =>
        \A p \in DOMAIN tree :
            Queued(p) <=> /\ tree[p].exists
                          /\ ~Temporary(p)
                          /\ p.ext \in {".docx", ".pdf", ".doc"}
                          /\ Record(run_start_state, p) # tree[p].mtime

\* A second scan has queued the changed a/x.docx and left out the recorded
\* b/x.docx, the temporary file and the .txt.
C25_Witness ==
    /\ pc = "scanned"
    /\ run_log.clean
    /\ \A p \in WidePaths : tree[p].exists
    /\ Queued(Path("a", "x", ".docx"))
    /\ Record(run_start_state, Path("b", "x", ".docx"))
          = tree[Path("b", "x", ".docx")].mtime
    /\ files_to_process = <<Path("a", "x", ".docx")>>

\* The point was made from the file at path p: process_document writes the
\* file's name and the name of its directory into the payload.
PointOf(p, q) == q.source_file = basename(p) /\ q.category = p.dir

\* C27: a pass of process_document leaves the points of every other file of
\* the tree in the collection.
C27_OtherDocumentsPointsKept ==
    [][(pc \in {"process", "extract", "upload"}) =>
          LET file_path == IF pc = "process" THEN files_to_process[cur]
                           ELSE pd.file_path
          IN \A q \in DOMAIN qdrant :
                ~PointOf(file_path, q) =>
                    (q \in DOMAIN qdrant' /\ qdrant'[q] >= qdrant[q])]_vars

----------------------------------------------------------------------------
(* Properties of clear_data.py *)

\* C31: once a reset has removed the state database, and until the next run
\* of ingest.py starts, the collection holds no point: the state is removed
\* only together with the collection.
C31_StateRemovedOnlyWithCollection ==
    (pc = "idle" /\ Logged("clear_db", NoIp.path)) => qdrant = EmptyBag

----------------------------------------------------------------------------
(* Properties of wait_for_embedding_service *)

\* C32: wait_for_embedding_service returns True only when the last answer of
\* the liveness probe reports the service as healthy.
C32_TrueOnlyWhenHealthy ==
    call.result = "True" => call.answer.status = "healthy"

\* C34: the call makes at most 30 attempts and returns; it returns True at
\* the first attempt answered with HTTP 200 and makes no attempt after it;
\* it returns False exactly when all 30 attempts failed.
C34_WaitTerminates ==
    /\ [](call.attempts <= ATTEMPTS)
    /\ [](call.result = "none" => call.failed = call.attempts /\ call.attempts < ATTEMPTS)
    /\ [](call.result = "True" =>
             /\ ~call.answer.raised /\ call.answer.status_code = 200
             /\ call.failed = call.attempts - 1)
    /\ [](call.result = "False" <=> call.failed = ATTEMPTS)
    /\ [][call.result # "none" => call' = call]_vars
    /\ <>(call.result # "none")

\* All 30 attempts failed, and the call has returned False.
C34_Witness ==
    call.result = "False" /\ call.attempts = ATTEMPTS

----------------------------------------------------------------------------
(* Properties of the collection setup of both programs *)

\* C33: a program that starts while the collection exists leaves the
\* collection in place and every point of it unchanged; a collection that
\* its setup creates is empty and was missing before.
C33_SetupKeepsExistingCollection ==
    [][pc = "idle" =>
          /\ collection_exists => (collection_exists' /\ qdrant' = qdrant)
          /\ (~collection_exists /\ collection_exists') => qdrant' = EmptyBag]_vars

\* upload.py has started over a collection that holds points of an earlier
\* run.
C33_Witness ==
    pc = "scanned" /\ collection_exists /\ qdrant # EmptyBag

----------------------------------------------------------------------------
(* Properties of chunk_text: the number and the offsets of the chunks *)

\* ceil(n / d) for d > 0
CeilDiv(n, d) == (n + d - 1) \div d

\* C35: with 0 <= overlap < size, chunk_text returns; for the empty text it
\* returns no chunk; for a text of length L > 0 it returns
\* ceil(L / (size - overlap)) chunks, and chunk i is the text from offset
\* (i - 1) * (size - overlap), a multiple of the step below L, up to size
\* characters.
C35_ChunkCountAndOffsets ==
    /\ ~call.returned => ENABLED chunk_text_call
    /\ call.returned =>
          LET L    == Len(call.text)
              step == call.size - call.overlap
          IN  /\ L = 0 => call.chunks = <<>>
              /\ Len(call.chunks) = CeilDiv(L, step)
              /\ \A i \in 1..Len(call.chunks) :
                    /\ (i - 1) * step < L
                    /\ call.chunks[i] =
                          SubSeq(call.text, (i - 1) * step + 1,
                                 Min((i - 1) * step + call.size, L))

\* A call has returned more chunks than the text has full steps, the last
\* one starting inside the chunk before it.
C35_Witness ==
    /\ call.returned
    /\ call.overlap > 0
    /\ Len(call.text) % (call.size - call.overlap) # 0
    /\ Len(call.chunks) = Len(call.text) \div (call.size - call.overlap) + 1
    /\ Len(call.chunks) >= 2

----------------------------------------------------------------------------
(* Properties of the polling loop of bot.py *)

\* C36: the polling offset never decreases; the offset is greater than the
\* id of every update that has been handed to a handler; and no update is
\* handed to a handler twice, whether or not iterations ended in an error.
C36_NoUpdateDispatchedTwice ==
    /\ [][call'.offset >= call.offset]_vars
    /\ [](\A k \in 1..Len(call.dispatched) : call.offset > call.dispatched[k])
    /\ [](\A j, k \in 1..Len(call.dispatched) :
             call.dispatched[j] = call.dispatched[k] => j = k)

\* An iteration ended in an error after an update had been handed to a
\* handler, and a later iteration has handed over another one.
C36_Witness ==
    /\ call.failed_at >= 1
    /\ Len(call.dispatched) > call.failed_at

============================================================================
